---- MODULE Spec2Model ----
(***************************************************************************)
(* Verification model of the sakani collector: the batch collector of      *)
(* data_collector.py (outer worker pool, per-ID retry routine, nested      *)
(* unit enrichment pool, dedup and commit), and the HTTP client of         *)
(* http_client.py with the global rate limiter of rate_limiter.py.         *)
(*                                                                         *)
(* The specifications share the variables:                                 *)
(*   Spec         a project batch whose projects list no child units;      *)
(*   SpecPool     a project batch whose projects list child units, so that *)
(*                every outer worker opens its nested enrichment pool;     *)
(*   SpecEnrich   one project and its children under every combination of  *)
(*                the secondary-fetch flags;                               *)
(*   SpecRun      two project categories collected one after another by    *)
(*                the orchestrator through the one collector;              *)
(*   SpecGate     workers running a retry routine through                  *)
(*                HTTPClient.make_request and the GlobalRateLimiter;       *)
(*   SpecGateLive SpecGate with every runnable thread eventually running.  *)
(***************************************************************************)
EXTENDS Integers, Sequences, FiniteSets, TLC

\* ---------------------------------------------------------------- bounds
\* Number of IDs submitted to one batch.
BatchLen == 3
\* Number of IDs submitted to the batch of SpecPool.
PoolLen == 2
\* Child units the Source API lists per project in SpecPool.
PoolUnits == 2
\* Retry budget handed to the collector (configuration.max_retries).
max_retries == 2
\* Worker threads of SpecGate.
GateThreads == 2
\* Child units the Source API lists for the project of SpecEnrich.
EnrichUnits == 3
\* Number of IDs the Source API lists per category in SpecRun.
RunLen == 1
\* Child units the Source API lists per project in SpecRun.
RunUnits == 1
\* IDs of a batch in SpecFlags.
FlagsLen == 1
\* IDs the first category lists in SpecFrame.
FrameLen == 2
\* IDs of a batch, and child units of a project, in SpecLevels: more than a
\* pool has workers.
LevelLen == 3
LevelUnits == 3

\* ------------------------------------------------------- program constants
max_workers == 2

VARIABLES
    \* ---- configuration and inputs of the batch
    use_threading,          \* configuration.use_threading
    project_ids,            \* the ID list handed to _collect_projects_batch
    flags,                  \* the enabled enrichment flags of the collector
    api_units,              \* number of child units get_available_units lists
    \* ---- one per-ID task (future) per position of project_ids
    pc,                     \* queued | ready | inflight | nested | finished
    step,                   \* index into ProjectSteps of the current call
    attempt,                \* loop variable of the retry loop
    result,                 \* pending | record | none | raised
    handled,                \* the as_completed loop has processed the future
    calls,                  \* get_project_details calls issued so far
    fails,                  \* attempts that ended in empty data or an exception
    \* ---- nested enrichment pool of each task
    units,                  \* per task, the children of the current attempt:
                            \* [upc, ustep, uattempt, ufails, ucalled, ures]
    \* ---- shared state of the collector
    output_data,            \* output_data[data_key], a list of records
    processed_project_ids,  \* self.processed_project_ids
    aborted,                \* an exception left _collect_projects_batch or the
                            \* orchestrator
    collected,              \* the output lists of the categories collected
                            \* before the current one (output_data's other keys)
    fetched,                \* per task, the project-level enrichments fetched
                            \* into extracted_data by the current attempt
    exported,               \* <<>>, or <<the lists written by export_to_json>>
    dlock,                  \* holder of the collector's self.lock: 0 = free,
                            \* 1 = the thread that runs the batch loop
    mainpc,                 \* where main is: "start", "collecting" (inside
                            \* collect_all_data) or "failed" (an exception
                            \* has left main)
    committing,             \* <<>>, or <<i, at>>: the batch loop holds the
                            \* truthy result of future i and is at position
                            \* at of its commit (SpecCommit)
    \* ---- HTTP client workers and the rate limiter (SpecGate)
    pause_event,            \* Event flag: TRUE = set = OPEN
    lock,                   \* holder of GlobalRateLimiter.lock, 0 = free
    waiters,                \* threads blocked inside Event.wait
    tpc,                    \* position of each worker thread
    tattempt,               \* loop variable of the worker's retry loop
    tstatus,                \* status of the response being interpreted (kept
                            \* when it ended the worker's routine)
    tallow404,              \* allow_404 of the worker's requests
    tresult,                \* pending | record | record_empty | none
    entryOpen,              \* the gate was OPEN when the thread called trigger_global_pause
    pausedSince             \* since the thread called trigger_global_pause, another
                            \* call that also began while OPEN has paused the gate

runVars == <<collected, exported, dlock, committing, mainpc>>
batchVars == <<use_threading, project_ids, flags, api_units, pc, step, attempt,
               result, handled, calls, fails, units, output_data,
               processed_project_ids, aborted, fetched, runVars>>
gateVars == <<pause_event, lock, waiters, tpc, tattempt, tstatus, tallow404,
              tresult, entryOpen, pausedSince>>
vars == <<batchVars, gateVars>>

\* ============================================================ batch model
\* The API calls of one attempt of _collect_single_project_data, in order.
ProjectSteps == <<"details", "price_trends", "demographics", "project_insight",
                  "project_transactions", "available_units", "unit_models">>
\* The project-level enrichments that a configuration flag gates.
ProjectFlags == {"price_trends", "demographics", "project_insight",
                 "project_transactions"}
\* The secondary fetches of enrich_unit, in order; each is gated by its flag.
UnitSteps == <<"unit_insights", "unit_project_trends", "unit_transactions">>
UnitFlags == {"unit_insights", "unit_project_trends", "unit_transactions"}
\* The flags as configuration.py ships them: all enabled.
ShippedFlags == ProjectFlags \cup UnitFlags

\* What one API call gives its caller: data, an empty result, or an exception.
Outcomes == {"value", "empty", "raise"}

Tasks == DOMAIN project_ids

\* The ID lists a batch is checked on (IDs are opaque, so only the pattern of
\* repeats matters): n distinct IDs, the first ID submitted twice in a row,
\* and the first ID submitted again at the end.
IdLists(n) ==
    { [k \in 1..n |-> k],
      [k \in 1..n |-> IF k = 1 THEN 1 ELSE k - 1],
      [k \in 1..n |-> IF k = n THEN 1 ELSE k] }

\* Step k of the routine issues a network call (a disabled flag yields its
\* placeholder without a call).
StepEnabled_Always(k) == TRUE
StepEnabled(k) ==
    ProjectSteps[k] \notin ProjectFlags \/ ProjectSteps[k] \in flags

\* The first step at or after k that issues a call.
RECURSIVE NextCall(_)
NextCall(k) ==
    IF k >= Len(ProjectSteps) THEN Len(ProjectSteps)
    ELSE IF StepEnabled(k) THEN k ELSE NextCall(k + 1)

\* What follows an attempt that raised or got no data.
AfterFailure_OffByOne(att) == IF att < max_retries THEN "retry" ELSE "none"
AfterFailure_Propagate(att) == IF att < max_retries - 1 THEN "retry" ELSE "raise"
AfterFailure_GiveUp(att) == "none"
AfterFailure(att) == IF att < max_retries - 1 THEN "retry" ELSE "none"

\* The step at which the next attempt begins after a failure at step k: the
\* continue of the retry loop re-enters the try block at get_project_details.
RestartStep_Resume(k) == k
RestartStep(k) == 1

\* Size of the ThreadPoolExecutor of a fan-out level.
PoolSlots_OneMore == max_workers + 1
PoolSlots == max_workers

\* list.append(record): the record becomes the last element.
AppendTo_Front(list, rec) == <<rec>> \o list
AppendTo(list, rec) == Append(list, rec)

\* The dedup test of the commit step.
ShouldAppend_NoDedup(id, seen) == TRUE
ShouldAppend_OnlySeen(id, seen) == id \in seen
ShouldAppend(id, seen) == id \notin seen

\* The truthiness test on the routine's result before the commit.
HasData_Always(res) == res # "raised"
HasData_Never(res) == FALSE
HasData(res) == res = "record"

\* The except clause around future.result() catches every Exception.
BoundaryCatches == TRUE

Running == {i \in Tasks : pc[i] \in {"ready", "inflight", "nested"}}

QueuedUnit == [upc |-> "queued", ustep |-> 1, uattempt |-> 0, ufails |-> 0,
               ucalled |-> FALSE, ures |-> "pending"]

\* executor.submit has queued every ID; a free worker (or, without threading,
\* the calling thread once the previous ID is done) enters the routine.
StartTask(i) ==
    /\ pc[i] = "queued"
    /\ ~aborted
    /\ \A j \in Tasks : j < i => pc[j] # "queued"
    /\ IF use_threading
         THEN Cardinality(Running) < PoolSlots
         ELSE \A j \in Tasks : j < i => handled[j]
    /\ IF max_retries = 0
         THEN /\ pc' = [pc EXCEPT ![i] = "finished"]
              /\ result' = [result EXCEPT ![i] = "none"]
              /\ step' = step
         ELSE /\ pc' = [pc EXCEPT ![i] = "ready"]
              /\ result' = result
              /\ step' = [step EXCEPT ![i] = 1]
    /\ UNCHANGED <<use_threading, project_ids, flags, api_units, attempt, handled,
                   calls, fails, units, output_data,
                   processed_project_ids, aborted, fetched, runVars, gateVars>>

\* The call of the current step has returned with outcome o: the routine runs
\* on to its next call, to its nested pool, to its return, or into its retry
\* handling.
Returned(i, o) ==
    LET s == ProjectSteps[step[i]]
        failed == o = "raise" \/ (s = "details" /\ o = "empty")
        next == AfterFailure(attempt[i])
    IN  /\ fetched' = [fetched EXCEPT ![i] =
                           IF failed THEN {}
                           ELSE IF s \in ProjectFlags THEN @ \cup {s} ELSE @]
        /\ IF failed
          THEN /\ fails' = [fails EXCEPT ![i] = @ + 1]
               /\ units' = [units EXCEPT ![i] = <<>>]
               /\ IF next = "retry"
                    THEN /\ pc' = [pc EXCEPT ![i] = "ready"]
                         /\ step' = [step EXCEPT ![i] = RestartStep(@)]
                         /\ attempt' = [attempt EXCEPT ![i] = @ + 1]
                         /\ result' = result
                    ELSE /\ pc' = [pc EXCEPT ![i] = "finished"]
                         /\ result' = [result EXCEPT ![i] =
                                         IF next = "none" THEN "none" ELSE "raised"]
                         /\ step' = [step EXCEPT ![i] = 1]
                         /\ attempt' = [attempt EXCEPT ![i] = 0]
          ELSE /\ fails' = fails
               /\ IF s = "unit_models"
                    THEN /\ pc' = [pc EXCEPT ![i] = "finished"]
                         /\ result' = [result EXCEPT ![i] = "record"]
                         /\ step' = [step EXCEPT ![i] = 1]
                         /\ attempt' = [attempt EXCEPT ![i] = 0]
                         /\ units' = units
                    ELSE IF s = "available_units" /\ o = "value" /\ api_units > 0
                    THEN /\ pc' = [pc EXCEPT ![i] = "nested"]
                         /\ units' = [units EXCEPT ![i] =
                                        [c \in 1..api_units |-> QueuedUnit]]
                         /\ UNCHANGED <<step, attempt, result>>
                    ELSE /\ pc' = [pc EXCEPT ![i] = "ready"]
                         /\ step' = [step EXCEPT ![i] = NextCall(@ + 1)]
                         /\ UNCHANGED <<attempt, result, units>>

\* One API call of the routine, request and response in one step (the batch
\* level does not observe a call in flight).
ApiCall(i, o) ==
    /\ pc[i] = "ready"
    /\ calls' = [calls EXCEPT ![i] = IF step[i] = 1 THEN @ + 1 ELSE @]
    /\ Returned(i, o)
    /\ UNCHANGED <<use_threading, project_ids, flags, api_units, handled,
                   output_data, processed_project_ids, aborted, runVars, gateVars>>

\* The worker issues the network call of its current step.
StartCall(i) ==
    /\ pc[i] = "ready"
    /\ pc' = [pc EXCEPT ![i] = "inflight"]
    /\ calls' = [calls EXCEPT ![i] = IF step[i] = 1 THEN @ + 1 ELSE @]
    /\ UNCHANGED <<use_threading, project_ids, flags, api_units, step, attempt,
                   result, handled, fails, units, output_data,
                   processed_project_ids, aborted, fetched, runVars, gateVars>>

\* The call in flight returns with outcome o.
FinishCall(i, o) ==
    /\ pc[i] = "inflight"
    /\ Returned(i, o)
    /\ UNCHANGED <<use_threading, project_ids, flags, api_units, handled, calls,
                   output_data, processed_project_ids, aborted, runVars, gateVars>>

\* The batch loop takes a completed future: future.result(), the truthiness
\* test, and the check-insert-append step.
ProcessCompleted(i) ==
    /\ pc[i] = "finished"
    /\ ~handled[i]
    /\ ~aborted
    /\ handled' = [handled EXCEPT ![i] = TRUE]
    /\ LET id == project_ids[i]
           commit == HasData(result[i]) /\ ShouldAppend(id, processed_project_ids)
       IN  /\ aborted' = (result[i] = "raised" /\ ~BoundaryCatches)
           /\ output_data' = IF commit
                               THEN AppendTo(output_data, [id |-> id, src |-> i])
                               ELSE output_data
           /\ processed_project_ids' = IF commit
                                         THEN processed_project_ids \cup {id}
                                         ELSE processed_project_ids
    /\ UNCHANGED <<use_threading, project_ids, flags, api_units, pc, step, attempt,
                   result, calls, fails, units, fetched, runVars, gateVars>>

GateIdle ==
    /\ pause_event = TRUE
    /\ lock = 0
    /\ waiters = {}
    /\ tpc = <<>>
    /\ tattempt = <<>>
    /\ tstatus = <<>>
    /\ tallow404 = <<>>
    /\ tresult = <<>>
    /\ entryOpen = <<>>
    /\ pausedSince = <<>>

BatchInit(ids, nunits, fl) ==
    /\ project_ids = ids
    /\ api_units = nunits
    /\ flags = fl
    /\ use_threading \in BOOLEAN
    /\ pc = [i \in DOMAIN ids |-> "queued"]
    /\ step = [i \in DOMAIN ids |-> 1]
    /\ attempt = [i \in DOMAIN ids |-> 0]
    /\ result = [i \in DOMAIN ids |-> "pending"]
    /\ handled = [i \in DOMAIN ids |-> FALSE]
    /\ calls = [i \in DOMAIN ids |-> 0]
    /\ fails = [i \in DOMAIN ids |-> 0]
    /\ units = [i \in DOMAIN ids |-> <<>>]
    /\ output_data = <<>>
    /\ processed_project_ids = {}
    /\ aborted = FALSE
    /\ collected = <<>>
    /\ fetched = [i \in DOMAIN ids |-> {}]
    /\ exported = <<>>
    /\ dlock = 0
    /\ committing = <<>>
    /\ mainpc = "collecting"

\* The flag configurations the batch is checked under.
BatchFlagConfigs == {{}}

Init ==
    /\ \E ids \in IdLists(BatchLen) : \E fl \in BatchFlagConfigs :
          BatchInit(ids, 0, fl)
    /\ GateIdle

Next ==
    \/ \E i \in Tasks : StartTask(i)
    \/ \E i \in Tasks : \E o \in Outcomes : ApiCall(i, o)
    \/ \E i \in Tasks : ProcessCompleted(i)

Spec == Init /\ [][Next]_vars

\* The batch under every combination of the four project-level flags
\* (SpecFlags).
ProjectFlagConfigs == SUBSET ProjectFlags

InitFlags ==
    /\ \E ids \in IdLists(FlagsLen) : \E fl \in ProjectFlagConfigs :
          BatchInit(ids, 0, fl)
    /\ GateIdle

SpecFlags == InitFlags /\ [][Next]_vars

BatchDone == \A i \in Tasks : handled[i]

\* ================================== the commit step by step (SpecCommit)
\* The thread that runs the loop of _collect_projects_batch: the only thread
\* that ever reaches the commit, in the threaded branch too (the loop over
\* as_completed runs in the caller, the workers only run the routine).
BatchThread == 1

\* Whether the branch takes self.lock around the commit: the threaded branch
\* does (with self.lock), the sequential branch does not.
TakesLock_Never(threaded) == FALSE
TakesLock(threaded) == threaded

\* The holder of self.lock after the with block has been left.
Released_Kept(holder) == holder
Released(holder) == 0

\* The loop takes a completed future: future.result() and the truthiness
\* test. A falsy result and a caught exception end the iteration; a truthy
\* result goes on to the commit.
BeginCommit(i) ==
    /\ pc[i] = "finished"
    /\ ~handled[i]
    /\ ~aborted
    /\ committing = <<>>
    /\ IF HasData(result[i])
         THEN /\ committing' = <<i, "taken">>
              /\ UNCHANGED <<handled, aborted>>
         ELSE /\ handled' = [handled EXCEPT ![i] = TRUE]
              /\ aborted' = (result[i] = "raised" /\ ~BoundaryCatches)
              /\ UNCHANGED committing
    /\ UNCHANGED <<use_threading, project_ids, flags, api_units, pc, step, attempt,
                   result, calls, fails, units, output_data,
                   processed_project_ids, fetched, collected, exported, dlock,
                   mainpc, gateVars>>

\* with self.lock: the loop thread acquires the lock.
LockAcquire ==
    /\ committing # <<>>
    /\ committing[2] = "taken"
    /\ TakesLock(use_threading)
    /\ dlock = 0
    /\ dlock' = BatchThread
    /\ committing' = <<committing[1], "locked">>
    /\ UNCHANGED <<use_threading, project_ids, flags, api_units, pc, step, attempt,
                   result, handled, calls, fails, units, output_data,
                   processed_project_ids, aborted, fetched, collected, exported,
                   mainpc, gateVars>>

\* if project_id not in self.processed_project_ids
CheckSeen ==
    /\ committing # <<>>
    /\ committing[2] = IF TakesLock(use_threading) THEN "locked" ELSE "taken"
    /\ committing' = <<committing[1],
                       IF ShouldAppend(project_ids[committing[1]],
                                       processed_project_ids)
                         THEN "checked" ELSE "added">>
    /\ UNCHANGED <<use_threading, project_ids, flags, api_units, pc, step, attempt,
                   result, handled, calls, fails, units, output_data,
                   processed_project_ids, aborted, fetched, collected, exported,
                   dlock, mainpc, gateVars>>

\* output_data[data_key].append(project_data)
AppendRecord ==
    /\ committing # <<>>
    /\ committing[2] = "checked"
    /\ output_data' = AppendTo(output_data, [id |-> project_ids[committing[1]],
                                             src |-> committing[1]])
    /\ committing' = <<committing[1], "appended">>
    /\ UNCHANGED <<use_threading, project_ids, flags, api_units, pc, step, attempt,
                   result, handled, calls, fails, units,
                   processed_project_ids, aborted, fetched, collected, exported,
                   dlock, mainpc, gateVars>>

\* self.processed_project_ids.add(project_id)
InsertId ==
    /\ committing # <<>>
    /\ committing[2] = "appended"
    /\ processed_project_ids' =
          processed_project_ids \cup {project_ids[committing[1]]}
    /\ committing' = <<committing[1], "added">>
    /\ UNCHANGED <<use_threading, project_ids, flags, api_units, pc, step, attempt,
                   result, handled, calls, fails, units, output_data,
                   aborted, fetched, collected, exported, dlock, mainpc, gateVars>>

\* The with block is left (the lock, when it was taken, is released) and the
\* iteration ends with its progress line.
EndCommit ==
    /\ committing # <<>>
    /\ committing[2] = "added"
    /\ dlock' = IF dlock = 0 THEN 0 ELSE Released(dlock)
    /\ handled' = [handled EXCEPT ![committing[1]] = TRUE]
    /\ committing' = <<>>
    /\ UNCHANGED <<use_threading, project_ids, flags, api_units, pc, step, attempt,
                   result, calls, fails, units, output_data,
                   processed_project_ids, aborted, fetched, collected, exported,
                   mainpc, gateVars>>

NextCommit ==
    \/ \E i \in Tasks : StartTask(i)
    \/ \E i \in Tasks : \E o \in Outcomes : ApiCall(i, o)
    \/ \E i \in Tasks : BeginCommit(i)
    \/ LockAcquire
    \/ CheckSeen
    \/ AppendRecord
    \/ InsertId
    \/ EndCommit

SpecCommit == Init /\ [][NextCommit]_vars
OutputIds == {output_data[k].id : k \in 1..Len(output_data)}
Exhausted(i) == pc[i] = "finished" /\ fails[i] = max_retries

\* ============================================= nested enrichment (SpecPool)
\* The first secondary fetch at or after k whose flag is enabled
\* (Len(UnitSteps) + 1 when there is none).
\* The secondary fetches (indices into UnitSteps) that the flags fl enable.
SecondaryFetches_All(fl) == 1..Len(UnitSteps)
SecondaryFetches(fl) == {k \in 1..Len(UnitSteps) : UnitSteps[k] \in fl}

\* The early return of enrich_unit: none of the three flags is enabled.
NoSecondaryFetch(fl) == SecondaryFetches(fl) = {}

RECURSIVE NextUnitCall(_)
NextUnitCall(k) ==
    IF k > Len(UnitSteps) THEN k
    ELSE IF k \in SecondaryFetches(flags) THEN k ELSE NextUnitCall(k + 1)

\* What follows an attempt of enrich_unit that raised.
AfterUnitFailure_Propagate(att) == IF att < max_retries - 1 THEN "retry" ELSE "raise"
AfterUnitFailure(att) == IF att < max_retries - 1 THEN "retry" ELSE "placeholder"

\* The secondary fetch at which the next attempt of enrich_unit begins after
\* a failure at fetch k: the loop body starts again with the three locals
\* reset, so at the first enabled fetch.
UnitRestartStep_Resume(k) == k
UnitRestartStep(k) == NextUnitCall(1)

UnitsRunning(i) ==
    {c \in DOMAIN units[i] : units[i][c].upc \in {"ready", "inflight"}}

\* enrich_unit is submitted to the ThreadPoolExecutor that the routine of
\* task i creates for its own children: a child waits for a slot of that
\* pool only. (A single pool shared with the outer level would make it wait
\* for a slot that the outer workers, which wait for it, occupy.)
NestedSlotFree_SharedPool(i) ==
    Cardinality(Running)
      + Cardinality({p \in Tasks \X (1..api_units) :
                        /\ p[2] \in DOMAIN units[p[1]]
                        /\ units[p[1]][p[2]].upc \in {"ready", "inflight"}})
      < PoolSlots
NestedSlotFree(i) == Cardinality(UnitsRunning(i)) < PoolSlots

\* A worker of task i's nested pool (or, without threading, the routine's own
\* thread once the previous child is done) enters enrich_unit for child c.
StartUnit(i, c) ==
    /\ pc[i] = "nested"
    /\ c \in DOMAIN units[i]
    /\ units[i][c].upc = "queued"
    /\ \A d \in DOMAIN units[i] : d < c => units[i][d].upc # "queued"
    /\ IF use_threading
         THEN NestedSlotFree(i)
         ELSE \A d \in DOMAIN units[i] : d < c => units[i][d].upc = "done"
    /\ units' = [units EXCEPT ![i][c] =
                   IF NoSecondaryFetch(flags) \/ max_retries = 0
                     THEN [QueuedUnit EXCEPT !.upc = "done",
                                             !.ures = "placeholder"]
                     ELSE [QueuedUnit EXCEPT !.upc = "ready",
                                             !.ustep = NextUnitCall(1)]]
    /\ UNCHANGED <<use_threading, project_ids, flags, api_units, pc, step, attempt,
                   result, handled, calls, fails, output_data,
                   processed_project_ids, aborted, fetched, runVars, gateVars>>

\* The child's worker issues its next secondary fetch.
StartUnitCall(i, c) ==
    /\ pc[i] = "nested"
    /\ c \in DOMAIN units[i]
    /\ units[i][c].upc = "ready"
    /\ units' = [units EXCEPT ![i][c].upc = "inflight",
                               ![i][c].ucalled = TRUE]
    /\ UNCHANGED <<use_threading, project_ids, flags, api_units, pc, step, attempt,
                   result, handled, calls, fails, output_data,
                   processed_project_ids, aborted, fetched, runVars, gateVars>>

\* The secondary fetch returns with outcome o.
FinishUnitCall(i, c, o) ==
    /\ pc[i] = "nested"
    /\ c \in DOMAIN units[i]
    /\ units[i][c].upc = "inflight"
    /\ LET u == units[i][c]
           nxt == NextUnitCall(u.ustep + 1)
       IN  units' = [units EXCEPT ![i][c] =
              IF o = "raise"
                THEN IF AfterUnitFailure(u.uattempt) = "retry"
                       THEN [u EXCEPT !.upc = "ready",
                                      !.ustep = UnitRestartStep(@),
                                      !.uattempt = @ + 1, !.ufails = @ + 1]
                       ELSE [u EXCEPT !.upc = "done", !.ustep = 1, !.uattempt = 0,
                                      !.ufails = @ + 1,
                                      !.ures = AfterUnitFailure(u.uattempt)]
                ELSE IF nxt > Len(UnitSteps)
                       THEN [u EXCEPT !.upc = "done", !.ustep = 1, !.uattempt = 0,
                                      !.ures = "enriched"]
                       ELSE [u EXCEPT !.upc = "ready", !.ustep = nxt]]
    /\ UNCHANGED <<use_threading, project_ids, flags, api_units, pc, step, attempt,
                   result, handled, calls, fails, output_data,
                   processed_project_ids, aborted, fetched, runVars, gateVars>>

\* One secondary fetch of a child, request and response in one step.
UnitCall(i, c, o) ==
    /\ pc[i] = "nested"
    /\ c \in DOMAIN units[i]
    /\ units[i][c].upc = "ready"
    /\ LET u == [units[i][c] EXCEPT !.ucalled = TRUE]
           nxt == NextUnitCall(u.ustep + 1)
       IN  units' = [units EXCEPT ![i][c] =
              IF o = "raise"
                THEN IF AfterUnitFailure(u.uattempt) = "retry"
                       THEN [u EXCEPT !.upc = "ready",
                                      !.ustep = UnitRestartStep(@),
                                      !.uattempt = @ + 1, !.ufails = @ + 1]
                       ELSE [u EXCEPT !.upc = "done", !.ustep = 1, !.uattempt = 0,
                                      !.ufails = @ + 1,
                                      !.ures = AfterUnitFailure(u.uattempt)]
                ELSE IF nxt > Len(UnitSteps)
                       THEN [u EXCEPT !.upc = "done", !.ustep = 1, !.uattempt = 0,
                                      !.ures = "enriched"]
                       ELSE [u EXCEPT !.upc = "ready", !.ustep = nxt]]
    /\ UNCHANGED <<use_threading, project_ids, flags, api_units, pc, step, attempt,
                   result, handled, calls, fails, output_data,
                   processed_project_ids, aborted, fetched, runVars, gateVars>>

\* Every child's future is done: the loop over the futures has built the
\* children list (a future that holds an exception gives the one-key
\* fallback record of the except clause; the workers' loop counters are
\* gone), the nested pool is left and the routine goes on to its next call
\* (unit_models).
JoinUnits(i) ==
    /\ pc[i] = "nested"
    /\ \A c \in DOMAIN units[i] : units[i][c].upc = "done"
    /\ pc' = [pc EXCEPT ![i] = "ready"]
    /\ step' = [step EXCEPT ![i] = NextCall(@ + 1)]
    /\ units' = [units EXCEPT ![i] =
                   [c \in DOMAIN @ |->
                       [@[c] EXCEPT !.ufails = 0,
                                    !.ures = IF @ = "raise" THEN "fallback" ELSE @]]]
    /\ UNCHANGED <<use_threading, project_ids, flags, api_units, attempt, result,
                   handled, calls, fails, output_data, processed_project_ids,
                   aborted, fetched, runVars, gateVars>>

\* Network operations in flight: the project-level calls of the outer workers
\* and the secondary fetches of the nested workers.
InFlight ==
    Cardinality({i \in Tasks : pc[i] = "inflight"})
    + Cardinality({p \in Tasks \X (1..api_units) :
                      /\ p[2] \in DOMAIN units[p[1]]
                      /\ units[p[1]][p[2]].upc = "inflight"})

\* The flag configuration of SpecPool: the secondary fetches enabled.
PoolFlags == UnitFlags

InitPool ==
    /\ BatchInit([k \in 1..PoolLen |-> k], PoolUnits, PoolFlags)
    /\ GateIdle

NextPool ==
    \/ \E i \in Tasks : StartTask(i)
    \/ \E i \in Tasks : StartCall(i)
    \/ \E i \in Tasks : \E o \in Outcomes : FinishCall(i, o)
    \/ \E i \in Tasks : ProcessCompleted(i)
    \/ \E i \in Tasks : JoinUnits(i)
    \/ \E i \in Tasks : \E c \in 1..api_units : StartUnit(i, c)
    \/ \E i \in Tasks : \E c \in 1..api_units : StartUnitCall(i, c)
    \/ \E i \in Tasks : \E c \in 1..api_units : \E o \in Outcomes :
          FinishUnitCall(i, c, o)

SpecPool == InitPool /\ [][NextPool]_vars

\* The flag configuration of SpecRun and SpecPoolLive: one secondary fetch per
\* child.
RunFlags == {"unit_insights"}

\* The two fan-out levels with every call taken as one step, and every
\* enabled step eventually taken: every network call returns, every worker
\* that can run does (SpecPoolLive).
NextPoolLive ==
    \/ \E i \in Tasks : StartTask(i)
    \/ \E i \in Tasks : \E o \in Outcomes : ApiCall(i, o)
    \/ \E i \in Tasks : ProcessCompleted(i)
    \/ \E i \in Tasks : JoinUnits(i)
    \/ \E i \in Tasks : \E c \in 1..api_units : StartUnit(i, c)
    \/ \E i \in Tasks : \E c \in 1..api_units : \E o \in Outcomes :
          UnitCall(i, c, o)

\* One secondary fetch per child is enabled in SpecPoolLive.
InitPoolLive ==
    /\ BatchInit([k \in 1..PoolLen |-> k], PoolUnits, RunFlags)
    /\ GateIdle

SpecPoolLive == InitPoolLive /\ [][NextPoolLive]_vars /\ WF_vars(NextPoolLive)

\* The two fan-out levels with more work than a pool has workers
\* (SpecLevels): a batch of LevelLen IDs whose projects list one child each,
\* or a batch of one ID whose project lists LevelUnits children.
LevelShapes == {<<LevelLen, 1>>, <<1, LevelUnits>>}

InitLevels ==
    /\ \E sh \in LevelShapes :
          BatchInit([k \in 1..sh[1] |-> k], sh[2], RunFlags)
    /\ GateIdle

SpecLevels == InitLevels /\ [][NextPoolLive]_vars

\* SpecEnrich: one project that lists EnrichUnits children, under every
\* combination of the three secondary-fetch flags.
EnrichFlagConfigs == SUBSET UnitFlags

InitEnrich ==
    /\ \E fl \in EnrichFlagConfigs : BatchInit(<<1>>, EnrichUnits, fl)
    /\ GateIdle

SpecEnrich == InitEnrich /\ [][NextPool]_vars

\* ================================================ orchestrated run (SpecRun)
\* The project categories collect_all_data hands to _collect_projects_batch of
\* the one collector, in this order.
ProjectCategories == <<"projects_under_construction", "projects_readymade">>

\* _collect_projects_batch returns when its loop over the completed futures
\* has ended and the executor's with block has joined the workers.
BatchReturns_Early == TRUE
BatchReturns == \A i \in Tasks : pc[i] = "finished" /\ handled[i]

\* The ID lists the listing of a category can return in SpecRun: the patterns
\* of IdLists, over IDs that the previous category listed too or over IDs
\* shifted by one.
RunIdLists ==
    IdLists(RunLen) \cup {[k \in 1..RunLen |-> l[k] + 1] : l \in IdLists(RunLen)}

\* Nothing between the per-ID boundary and main catches an exception: main's
\* except clause logs and re-raises, so the run goes on only while nothing
\* has been raised outside that boundary.
RunAlive_Always == TRUE
RunAlive == ~aborted

\* The batch of a category has returned and collect_all_data goes on to its
\* next project category: get_project_ids lists its IDs (o = "value"), lists
\* none (o = "empty", the category is skipped), or raises (o = "raise", which
\* nothing catches); with IDs, _collect_projects_batch is called on the same
\* collector with the next key of output_data.
NextCategory(o, ids) ==
    /\ BatchReturns
    /\ RunAlive
    /\ Len(collected) + 1 < Len(ProjectCategories)
    /\ collected' = Append(collected, output_data)
    /\ output_data' = <<>>
    /\ aborted' = (o = "raise")
    /\ LET new == IF o = "value" THEN ids ELSE <<>>
       IN  /\ project_ids' = new
           /\ pc' = [i \in DOMAIN new |-> "queued"]
           /\ step' = [i \in DOMAIN new |-> 1]
           /\ attempt' = [i \in DOMAIN new |-> 0]
           /\ result' = [i \in DOMAIN new |-> "pending"]
           /\ handled' = [i \in DOMAIN new |-> FALSE]
           /\ calls' = [i \in DOMAIN new |-> 0]
           /\ fails' = [i \in DOMAIN new |-> 0]
           /\ units' = [i \in DOMAIN new |-> <<>>]
           /\ fetched' = [i \in DOMAIN new |-> {}]
    /\ UNCHANGED <<use_threading, flags, api_units, processed_project_ids,
                   exported, dlock, committing, mainpc, gateVars>>

\* The batch of the last project category has returned. The listings of the
\* categories that follow and export_to_json's open either all succeed
\* (ok): collect_all_data returns output_data and main writes it to
\* sakani_data.json; or one of them raises (~ok): the exception leaves main
\* and nothing is written.
Export(ok) ==
    /\ BatchReturns
    /\ RunAlive
    /\ Len(collected) + 1 = Len(ProjectCategories)
    /\ exported = <<>>
    /\ exported' = IF ok THEN <<Append(collected, output_data)>> ELSE <<>>
    /\ aborted' = ~ok
    /\ project_ids' = IF ok THEN project_ids ELSE <<>>
    /\ pc' = IF ok THEN pc ELSE <<>>
    /\ UNCHANGED <<use_threading, flags, api_units, step, attempt, result,
                   handled, calls, fails, units, output_data,
                   processed_project_ids, fetched, collected, dlock,
                   committing, mainpc, gateVars>>

InitRun ==
    /\ \E ids \in IdLists(RunLen) : BatchInit(ids, RunUnits, RunFlags)
    /\ GateIdle

NextRun ==
    \/ \E i \in Tasks : StartTask(i)
    \/ \E i \in Tasks : \E o \in Outcomes : ApiCall(i, o)
    \/ \E i \in Tasks : ProcessCompleted(i)
    \/ \E i \in Tasks : JoinUnits(i)
    \/ \E i \in Tasks : \E c \in 1..api_units : StartUnit(i, c)
    \/ \E i \in Tasks : \E c \in 1..api_units : \E o \in Outcomes :
          UnitCall(i, c, o)
    \/ \E o \in Outcomes : \E ids \in RunIdLists : NextCategory(o, ids)
    \/ \E ok \in BOOLEAN : Export(ok)

SpecRun == InitRun /\ [][NextRun]_vars

\* The run over the project categories with a first category of FrameLen IDs
\* and projects that list no children (SpecFrame).
InitFrame ==
    /\ \E ids \in IdLists(FrameLen) : BatchInit(ids, 0, {})
    /\ GateIdle

NextFrame ==
    \/ \E i \in Tasks : StartTask(i)
    \/ \E i \in Tasks : \E o \in Outcomes : ApiCall(i, o)
    \/ \E i \in Tasks : ProcessCompleted(i)
    \/ \E o \in Outcomes : \E ids \in RunIdLists : NextCategory(o, ids)
    \/ \E ok \in BOOLEAN : Export(ok)

SpecFrame == InitFrame /\ [][NextFrame]_vars

\* ======================================================= start-up (SpecMain)
\* The parameters of ProjectDataCollector.__init__ after self: all positional,
\* none with a default.
CollectorParams ==
    <<"api_client", "extractor", "max_workers", "use_threading", "max_retries",
      "unit_insights", "unit_project_trends", "unit_transactions",
      "project_insight", "price_trends", "project_transactions", "demographics">>

\* The arguments main passes to ProjectDataCollector.
MainCollectorArgs ==
    <<"api_client", "extractor", "max_workers", "use_threading", "max_retries",
      "unit_insights", "unit_project_trends", "unit_transactions">>

\* A call with positional arguments only binds when it gives every parameter
\* without a default its argument and no argument is left over; otherwise
\* Python raises TypeError.
Binds(params, args) == Len(args) = Len(params)

\* main: the components are constructed in order and collect_all_data is
\* called; an exception in the try block is logged and re-raised.
Main ==
    /\ mainpc = "start"
    /\ mainpc' = IF Binds(CollectorParams, MainCollectorArgs)
                   THEN "collecting" ELSE "failed"
    /\ UNCHANGED <<use_threading, project_ids, flags, api_units, pc, step, attempt,
                   result, handled, calls, fails, units, output_data,
                   processed_project_ids, aborted, fetched, collected, exported,
                   dlock, committing, gateVars>>

\* The program is started under any setting of use_threading and of the
\* seven enrichment flags of configuration.py.
InitMain ==
    /\ use_threading \in BOOLEAN
    /\ flags \in SUBSET ShippedFlags
    /\ project_ids = <<>>
    /\ api_units = 0
    /\ pc = <<>>
    /\ step = <<>>
    /\ attempt = <<>>
    /\ result = <<>>
    /\ handled = <<>>
    /\ calls = <<>>
    /\ fails = <<>>
    /\ units = <<>>
    /\ output_data = <<>>
    /\ processed_project_ids = {}
    /\ aborted = FALSE
    /\ collected = <<>>
    /\ fetched = <<>>
    /\ exported = <<>>
    /\ dlock = 0
    /\ committing = <<>>
    /\ mainpc = "start"
    /\ GateIdle

SpecMain == InitMain /\ [][Main]_vars

\* ================================== HTTP client and rate limiter (SpecGate)
Threads == 1..GateThreads

\* What one requests.get can end in: a response with a status (a 200 response
\* has a body that holds data, holds no data, or is not JSON), or a
\* RequestsError raised by the transport.
Responses == {"200_data", "200_empty", "200_badjson", "403", "429", "404", "500",
              "neterr"}

\* The statuses make_request escalates to the rate limiter.
ThrottleStatuses_Only429 == {"429"}
ThrottleStatuses_With500 == {"403", "429", "500"}
ThrottleStatuses == {"403", "429"}

\* What make_request gives its caller for a response, once the pacing delay is
\* over and no pause is to be triggered: "value", "empty" or "raise".
Interpret_No404Allowance(resp, allow404) ==
    IF resp = "200_data" THEN "value"
    ELSE IF resp = "200_empty" THEN "empty"
    ELSE "raise"
Interpret(resp, allow404) ==
    IF allow404 /\ resp = "404" THEN "empty"
    ELSE IF resp = "200_data" THEN "value"
    ELSE IF resp = "200_empty" THEN "empty"
    ELSE "raise"

\* What follows a failed attempt of _collect_single_market_unit.
AfterMarketFailure_Forever(att) == "retry"
AfterMarketFailure_NoRetry(att) == "none"
AfterMarketFailure(att) == IF att < max_retries - 1 THEN "retry" ELSE "none"

\* Event.wait on entry: return at once when the flag is set.
WaitPasses_Never(flag) == FALSE
WaitPasses_Always(flag) == TRUE
WaitPasses(flag) == flag

\* Event.set wakes every thread blocked in Event.wait (notify_all): the
\* threads still blocked afterwards.
StillBlocked_NotifyOne(ws) == IF ws = {} THEN {} ELSE ws \ {CHOOSE t \in ws : TRUE}
StillBlocked_NotifyNone(ws) == ws
StillBlocked(ws) == {}

InTrigger(t) == tpc[t] \in {"trigger", "sleeping", "throttled"}

\* The two callers of make_request the workers stand for: a worker whose
\* requests do not allow a 404 runs _collect_single_market_unit, which takes
\* an empty record as a failed attempt; a worker whose requests allow a 404
\* runs enrich_unit with get_unit_insights, which takes an empty result as it
\* is.
EmptyIsFailure(allow404) == ~allow404

\* make_request has ended for its caller with outcome o: the caller's retry
\* loop returns the record, retries, or gives up.
CallerNext(t, o) ==
    IF o = "value" \/ (o = "empty" /\ ~EmptyIsFailure(tallow404[t]))
      THEN /\ tpc' = [tpc EXCEPT ![t] = "done"]
           /\ tresult' = [tresult EXCEPT ![t] =
                             IF o = "value" THEN "record" ELSE "record_empty"]
           /\ tattempt' = [tattempt EXCEPT ![t] = 0]
      ELSE IF AfterMarketFailure(tattempt[t]) = "retry"
      THEN /\ tpc' = [tpc EXCEPT ![t] = "call"]
           /\ tattempt' = [tattempt EXCEPT ![t] = @ + 1]
           /\ tresult' = tresult
      ELSE /\ tpc' = [tpc EXCEPT ![t] = "done"]
           /\ tresult' = [tresult EXCEPT ![t] = "none"]
           /\ tattempt' = [tattempt EXCEPT ![t] = 0]

\* make_request begins: wait_if_paused, i.e. Event.wait. The thread goes on
\* when the flag is set and blocks on the event's condition otherwise.
WaitEnter(t) ==
    /\ tpc[t] = "call"
    /\ IF WaitPasses(pause_event)
         THEN /\ tpc' = [tpc EXCEPT ![t] = "send"]
              /\ waiters' = waiters
         ELSE /\ tpc' = [tpc EXCEPT ![t] = "blocked"]
              /\ waiters' = waiters \cup {t}
    /\ UNCHANGED <<batchVars, pause_event, lock, tattempt, tstatus, tallow404,
                   tresult, entryOpen, pausedSince>>

\* A thread that Event.set has notified returns from Event.wait.
WaitWake(t) ==
    /\ tpc[t] = "blocked"
    /\ t \notin waiters
    /\ tpc' = [tpc EXCEPT ![t] = "send"]
    /\ UNCHANGED <<batchVars, pause_event, lock, waiters, tattempt, tstatus,
                   tallow404, tresult, entryOpen, pausedSince>>

\* requests.get is issued: the network call starts.
Send(t) ==
    /\ tpc[t] = "send"
    /\ tpc' = [tpc EXCEPT ![t] = "inflight"]
    /\ UNCHANGED <<batchVars, pause_event, lock, waiters, tattempt, tstatus,
                   tallow404, tresult, entryOpen, pausedSince>>

\* requests.get ends: with a response, which is kept while the pacing delay
\* runs, or with a RequestsError, which make_request re-raises at once.
Receive(t, resp) ==
    /\ tpc[t] = "inflight"
    /\ IF resp = "neterr"
         THEN /\ CallerNext(t, "raise")
              /\ tstatus' = tstatus
         ELSE /\ tpc' = [tpc EXCEPT ![t] = "delay"]
              /\ tstatus' = [tstatus EXCEPT ![t] = resp]
              /\ UNCHANGED <<tattempt, tresult>>
    /\ UNCHANGED <<batchVars, pause_event, lock, waiters, tallow404, entryOpen,
                   pausedSince>>

\* The pacing delay is over and the response is interpreted: an allowed 404
\* returns {}, a throttling status calls trigger_global_pause, any other
\* status but 200 raises, a 200 response returns its parsed body or raises on
\* a body that is not JSON.
Delay(t) ==
    /\ tpc[t] = "delay"
    /\ LET resp == tstatus[t]
       IN  IF resp \in ThrottleStatuses
             THEN /\ tpc' = [tpc EXCEPT ![t] = "trigger"]
                  /\ entryOpen' = [entryOpen EXCEPT ![t] = pause_event]
                  /\ pausedSince' = [pausedSince EXCEPT ![t] = FALSE]
                  /\ UNCHANGED <<tattempt, tresult>>
             ELSE /\ CallerNext(t, Interpret(resp, tallow404[t]))
                  /\ UNCHANGED <<entryOpen, pausedSince>>
    /\ tstatus' = [tstatus EXCEPT ![t] = IF tpc'[t] = "done" THEN @ ELSE "none"]
    /\ UNCHANGED <<batchVars, pause_event, lock, waiters, tallow404>>

\* pause_event.clear(): the event is clear afterwards, whatever it was.
EventClear_Skipped(e) == e
EventClear(e) == FALSE

\* trigger_global_pause takes the lock and tests the event: when it is set the
\* thread clears it and starts the pause sleep, with the lock held; when it is
\* clear the thread leaves the with block at once.
Acquire(t) ==
    /\ tpc[t] = "trigger"
    /\ lock = 0
    /\ IF pause_event
         THEN /\ pause_event' = EventClear(pause_event)
              /\ lock' = t
              /\ tpc' = [tpc EXCEPT ![t] = "sleeping"]
              /\ pausedSince' =
                    [u \in Threads |->
                        IF u # t /\ tpc[u] = "trigger" /\ entryOpen[t]
                          THEN TRUE ELSE pausedSince[u]]
         ELSE /\ tpc' = [tpc EXCEPT ![t] = "throttled"]
              /\ UNCHANGED <<pause_event, lock, pausedSince>>
    /\ UNCHANGED <<batchVars, waiters, tattempt, tstatus, tallow404, tresult,
                   entryOpen>>

\* The pause sleep ends: the event is set, which wakes the blocked threads,
\* and the lock is released.
Resume(t) ==
    /\ tpc[t] = "sleeping"
    /\ pause_event' = TRUE
    /\ waiters' = StillBlocked(waiters)
    /\ lock' = 0
    /\ tpc' = [tpc EXCEPT ![t] = "throttled"]
    /\ UNCHANGED <<batchVars, tattempt, tstatus, tallow404, tresult, entryOpen,
                   pausedSince>>

\* trigger_global_pause has returned: make_request raises its exception.
RaiseThrottled(t) ==
    /\ tpc[t] = "throttled"
    /\ CallerNext(t, "raise")
    /\ entryOpen' = [entryOpen EXCEPT ![t] = FALSE]
    /\ pausedSince' = [pausedSince EXCEPT ![t] = FALSE]
    /\ UNCHANGED <<batchVars, pause_event, lock, waiters, tstatus, tallow404>>

BatchIdle ==
    /\ use_threading = TRUE
    /\ project_ids = <<>>
    /\ flags = {}
    /\ api_units = 0
    /\ pc = <<>>
    /\ step = <<>>
    /\ attempt = <<>>
    /\ result = <<>>
    /\ handled = <<>>
    /\ calls = <<>>
    /\ fails = <<>>
    /\ units = <<>>
    /\ output_data = <<>>
    /\ processed_project_ids = {}
    /\ aborted = FALSE
    /\ collected = <<>>
    /\ fetched = <<>>
    /\ exported = <<>>
    /\ dlock = 0
    /\ committing = <<>>
    /\ mainpc = "collecting"

InitGate ==
    /\ BatchIdle
    /\ pause_event = TRUE
    /\ lock = 0
    /\ waiters = {}
    /\ tpc = [t \in Threads |-> "call"]
    /\ tattempt = [t \in Threads |-> 0]
    /\ tstatus = [t \in Threads |-> "none"]
    /\ tallow404 \in [Threads -> BOOLEAN]
    /\ tresult = [t \in Threads |-> "pending"]
    /\ entryOpen = [t \in Threads |-> FALSE]
    /\ pausedSince = [t \in Threads |-> FALSE]

NextGate ==
    \/ \E t \in Threads : WaitEnter(t)
    \/ \E t \in Threads : WaitWake(t)
    \/ \E t \in Threads : Send(t)
    \/ \E t \in Threads : \E resp \in Responses : Receive(t, resp)
    \/ \E t \in Threads : Delay(t)
    \/ \E t \in Threads : Acquire(t)
    \/ \E t \in Threads : Resume(t)
    \/ \E t \in Threads : RaiseThrottled(t)

SpecGate == InitGate /\ [][NextGate]_vars

\* The steps of worker thread t.
ThreadStep(t) ==
    \/ WaitEnter(t)
    \/ WaitWake(t)
    \/ Send(t)
    \/ \E resp \in Responses : Receive(t, resp)
    \/ Delay(t)
    \/ Acquire(t)
    \/ Resume(t)
    \/ RaiseThrottled(t)

\* SpecGateLive: SpecGate with every thread that can run eventually running
\* (a sleep ends, a request ends, a runnable thread is scheduled).
SpecGateLive == SpecGate /\ \A t \in Threads : WF_vars(ThreadStep(t))

\* The rate limiter configured with a negative pause_duration_minutes
\* (SpecPauseFails): time.sleep raises ValueError on a negative length. The
\* exception leaves the with block, which releases the lock, and
\* trigger_global_pause, whose pause_event.set() is skipped; make_request's
\* except clauses do not match it, so it reaches the caller's retry loop.
SleepRaises(t) ==
    /\ tpc[t] = "sleeping"
    /\ lock' = 0
    /\ CallerNext(t, "raise")
    /\ entryOpen' = [entryOpen EXCEPT ![t] = FALSE]
    /\ pausedSince' = [pausedSince EXCEPT ![t] = FALSE]
    /\ UNCHANGED <<batchVars, pause_event, waiters, tstatus, tallow404>>

PauseFailsStep(t) ==
    \/ WaitEnter(t)
    \/ Send(t)
    \/ \E resp \in Responses : Receive(t, resp)
    \/ Delay(t)
    \/ Acquire(t)
    \/ SleepRaises(t)
    \/ RaiseThrottled(t)

NextPauseFails ==
    \/ \E t \in Threads : WaitEnter(t)
    \/ \E t \in Threads : Send(t)
    \/ \E t \in Threads : \E resp \in Responses : Receive(t, resp)
    \/ \E t \in Threads : Delay(t)
    \/ \E t \in Threads : Acquire(t)
    \/ \E t \in Threads : SleepRaises(t)
    \/ \E t \in Threads : RaiseThrottled(t)

SpecPauseFails ==
    /\ InitGate
    /\ [][NextPauseFails]_vars
    /\ \A t \in Threads : WF_vars(PauseFailsStep(t))


\* ================================================================ claims
\* ---- C1 -----------------------------------------------------------------
\* C1: dedup invariant. In every reachable state of a batch, whatever the ID
\* list and the interleaving of the workers, the category's output list holds
\* at most one record per ID.
C1_DedupInvariant ==
    \A a, b \in 1..Len(output_data) :
        a # b => output_data[a].id # output_data[b].id

\* The same ID was submitted twice, both submissions produced a record and were
\* processed, and the output holds exactly one record of that ID.
C1_Witness ==
    \E i, j \in Tasks :
        /\ i < j
        /\ project_ids[i] = project_ids[j]
        /\ result[i] = "record" /\ result[j] = "record"
        /\ handled[i] /\ handled[j]
        /\ use_threading
        /\ Cardinality({k \in 1..Len(output_data) :
                            output_data[k].id = project_ids[i]}) = 1

\* ---- C2 -----------------------------------------------------------------
\* C2: a burst of throttling responses is collapsed into one pause. When a
\* thread whose trigger_global_pause call began while the gate was OPEN starts
\* a pause sleep, no other call that also began while OPEN, and was pending at
\* the same time, has already paused the gate: two such concurrent calls give
\* one pause episode, not two.
C2_OnePausePerBurst ==
    \A t \in Threads :
        (tpc[t] = "sleeping" /\ entryOpen[t]) => ~pausedSince[t]

\* ---- C3 -----------------------------------------------------------------
\* C3: a submission whose every attempt (max_retries of them) failed returns
\* no record and commits nothing; an ID all of whose submissions were
\* exhausted is absent from the output; and the batch is neither aborted nor
\* stuck: it runs on until every future is processed, and then every
\* submission that was not exhausted has its ID in the output.
C3_ExhaustedExcluded ==
    /\ \A i \in Tasks :
          Exhausted(i) =>
             /\ result[i] = "none"
             /\ \A k \in 1..Len(output_data) : output_data[k].src # i
    /\ \A i \in Tasks :
          (\A j \in Tasks : project_ids[j] = project_ids[i] => Exhausted(j))
             => project_ids[i] \notin OutputIds
    /\ ~aborted
    /\ BatchDone \/ ENABLED Next
    /\ BatchDone =>
          \A i \in Tasks : ~Exhausted(i) => project_ids[i] \in OutputIds

\* A finished batch in which one submission failed on all its attempts and
\* another one was committed.
C3_Witness ==
    /\ BatchDone
    /\ \E i, j \in Tasks :
          /\ Exhausted(i)
          /\ calls[i] = max_retries
          /\ project_ids[i] \notin OutputIds
          /\ ~Exhausted(j)
          /\ project_ids[j] \in OutputIds

\* ---- C4 -----------------------------------------------------------------
DistinctIds == \A i, j \in Tasks : i # j => project_ids[i] # project_ids[j]
Succeeded == {i \in Tasks : ~Exhausted(i)}

\* C4: completeness. When a batch of n distinct IDs on a fresh collector is
\* done, the output list holds exactly one record for each ID that was not
\* exhausted and nothing else: its length is n - k for k exhausted IDs.
C4_Completeness ==
    (BatchDone /\ DistinctIds) =>
        /\ Len(output_data) = Cardinality(Tasks) - Cardinality(Tasks \ Succeeded)
        /\ OutputIds = {project_ids[i] : i \in Succeeded}

\* A finished threaded batch of distinct IDs, exactly one of them exhausted,
\* whose output has one record less than IDs were submitted.
C4_Witness ==
    /\ BatchDone
    /\ DistinctIds
    /\ use_threading
    /\ Cardinality(Tasks \ Succeeded) = 1
    /\ Len(output_data) = Cardinality(Tasks) - 1

\* ---- C5 -----------------------------------------------------------------
\* C5: a trigger_global_pause call made while the gate is PAUSED is a no-op:
\* the caller never sleeps, and it never has to wait for the lock, which the
\* pausing thread would hold until the pause is over.
C5_PausedCallIsNoop ==
    \A t \in Threads :
        (InTrigger(t) /\ ~entryOpen[t]) =>
            /\ tpc[t] # "sleeping"
            /\ tpc[t] = "trigger" => lock = 0

C7_NoCallWhilePaused ==
    [][\A t \in Threads :
          (tpc[t] = "send" /\ tpc'[t] = "inflight") => pause_event]_vars

\* ---- C8 -----------------------------------------------------------------
\* C8: at every moment of a batch collection, nested enrichment included, the
\* number of network operations in flight is at most the configured worker
\* count.
C8_InFlightBounded == InFlight <= max_workers

\* ---- C9 -----------------------------------------------------------------
\* C9: failure isolation. No exception leaves the per-ID routine or the batch:
\* no future ever holds an exception, the batch is never aborted, it can
\* always take a further step until every future is processed, and every
\* processed submission that returned a record has its ID committed, whatever
\* happened to its siblings.
C9_FailureIsolation ==
    /\ ~aborted
    /\ \A i \in Tasks : result[i] # "raised"
    /\ BatchDone \/ ENABLED Next
    /\ \A i \in Tasks :
          (handled[i] /\ result[i] = "record") =>
              /\ project_ids[i] \in processed_project_ids
              /\ project_ids[i] \in OutputIds

\* One submission failed on its last attempt and yielded nothing, while a
\* sibling submitted after it was committed.
C9_Witness ==
    \E i, j \in Tasks :
        /\ i < j
        /\ Exhausted(i) /\ handled[i] /\ result[i] = "none"
        /\ handled[j] /\ result[j] = "record"
        /\ \E k \in 1..Len(output_data) : output_data[k].src = j

\* ---- C10 ----------------------------------------------------------------
\* C10: retry budget. A submission issues at most max_retries base fetches;
\* while it runs, every failed attempt so far was followed by exactly one new
\* attempt; it returns no record only after max_retries failed attempts, and
\* a record after the first attempt that did not fail; a submission that
\* returned no record has no record in the output.
C10_RetryBudget ==
    \A i \in Tasks :
        /\ calls[i] <= max_retries
        /\ result[i] \in {"pending", "none", "record"}
        /\ pc[i] \in {"ready", "inflight", "nested"} =>
              /\ attempt[i] < max_retries
              /\ fails[i] = attempt[i]
              /\ calls[i] \in {attempt[i], attempt[i] + 1}
        /\ result[i] = "none" =>
              /\ fails[i] = max_retries
              /\ calls[i] <= max_retries
              /\ \A k \in 1..Len(output_data) : output_data[k].src # i
        /\ result[i] = "record" =>
              /\ fails[i] < max_retries
              /\ calls[i] = fails[i] + 1

\* One submission used its whole budget and returned nothing; another one
\* returned a record on a retry.
C10_Witness ==
    \E i, j \in Tasks :
        /\ result[i] = "none" /\ calls[i] = max_retries /\ max_retries > 1
        /\ result[j] = "record" /\ fails[j] >= 1

\* ---- C11 ----------------------------------------------------------------
\* C11: when every one of the max_retries attempts of enrich_unit for a child
\* has failed, the child's record is the base child with the three empty
\* placeholders and no exception leaves enrich_unit; while the nested pool
\* runs, the parent's attempt counter, failure count and result stay as they
\* are, and the pool is left only towards the parent's next call
\* (unit_models) with one record per listed child.
C11_EnrichNeverFailsParent ==
    /\ [](\A i \in Tasks : \A c \in DOMAIN units[i] :
            LET u == units[i][c]
            IN  /\ u.ures \in {"pending", "placeholder", "enriched"}
                /\ u.ufails <= max_retries
                /\ (u.upc = "done" /\ u.ufails = max_retries)
                      => u.ures = "placeholder"
                /\ u.upc \in {"ready", "inflight"}
                      => (u.ufails = u.uattempt /\ u.ufails < max_retries))
    /\ [][\A i \in Tasks :
            pc[i] = "nested" =>
                /\ fails'[i] = fails[i]
                /\ attempt'[i] = attempt[i]
                /\ result'[i] = result[i]
                /\ pc'[i] \in {"nested", "ready"}
                /\ pc'[i] = "ready" =>
                      /\ ProjectSteps[step'[i]] = "unit_models"
                      /\ Len(units'[i]) = api_units
                      /\ \A c \in DOMAIN units'[i] :
                            units'[i][c].ures \in {"placeholder", "enriched"}]_vars

\* A project record was committed on its first attempt although one of its
\* children failed on all max_retries attempts of its enrichment (and got the
\* placeholders) while another child was enriched.
C11_Witness ==
    \E i \in Tasks :
        /\ handled[i] /\ result[i] = "record" /\ fails[i] = 0
        /\ project_ids[i] \in OutputIds
        /\ flags \cap UnitFlags # {}
        /\ \E c, d \in DOMAIN units[i] :
              /\ units[i][c].ucalled
              /\ units[i][c].ures = "placeholder"
              /\ units[i][d].ures = "enriched"

\* ---- C12 ----------------------------------------------------------------
\* C12: with the three secondary-fetch flags disabled, enrich_unit issues no
\* secondary call for any child and gives every child the same record: the
\* base child with the three empty placeholders.
C12_DisabledEnrichIsPlaceholder ==
    (flags \cap UnitFlags = {}) =>
        \A i \in Tasks : \A c \in DOMAIN units[i] :
            /\ ~units[i][c].ucalled
            /\ units[i][c].upc \in {"queued", "done"}
            /\ units[i][c].upc = "done" =>
                  units[i][c] = [QueuedUnit EXCEPT !.upc = "done",
                                                   !.ures = "placeholder"]

\* With the flags disabled, a project with EnrichUnits children was collected:
\* every child carries the placeholders and no secondary call was issued.
C12_Witness ==
    /\ flags \cap UnitFlags = {}
    /\ \E i \in Tasks :
          /\ result[i] = "record"
          /\ Len(units[i]) = EnrichUnits
          /\ \A c \in DOMAIN units[i] :
                /\ units[i][c].ures = "placeholder"
                /\ ~units[i][c].ucalled

\* ---- C13 ----------------------------------------------------------------
\* C13: a response with status 403 or 429 makes make_request call
\* trigger_global_pause and then raise: once the pacing delay after such a
\* response is over the worker is in trigger_global_pause, the raise of a
\* throttled request is reached only through trigger_global_pause, and it
\* ends the attempt as a failure (a retry, or no record on the last attempt),
\* never with a result.
C13_ThrottledSignalsAndRaises ==
    [][\A t \in Threads :
          /\ (tpc[t] = "delay" /\ tstatus[t] \in {"403", "429"}
                  /\ tpc'[t] # "delay")
                => tpc'[t] = "trigger"
          /\ (tpc'[t] = "throttled" /\ tpc[t] # "throttled")
                => tpc[t] \in {"trigger", "sleeping"}
          /\ (tpc[t] \in {"trigger", "sleeping"} /\ tpc'[t] # tpc[t])
                => tpc'[t] \in {"sleeping", "throttled"}
          /\ (tpc[t] = "throttled" /\ tpc'[t] # "throttled")
                => /\ tresult'[t] \notin {"record", "record_empty"}
                   /\ \/ tpc'[t] = "call" /\ tattempt'[t] = tattempt[t] + 1
                      \/ /\ tpc'[t] = "done" /\ tresult'[t] = "none"
                         /\ tattempt[t] = max_retries - 1]_vars

\* A worker whose requests allow a 404 got a throttling status on its last
\* attempt; its trigger_global_pause call has slept and returned, and
\* make_request is about to raise.
C13_Witness ==
    \E t \in Threads :
        /\ tallow404[t]
        /\ tpc[t] = "throttled"
        /\ tattempt[t] = max_retries - 1
        /\ tresult[t] = "pending"
        /\ pause_event /\ lock = 0

\* ---- C14 ----------------------------------------------------------------
\* C14: the pacing delay follows every network call, failed ones included:
\* whenever requests.get ends, the worker's next position is the pacing delay.
C14_DelayAfterEveryCall ==
    [][\A t \in Threads :
          (tpc[t] = "inflight" /\ tpc'[t] # "inflight") => tpc'[t] = "delay"]_vars

\* ---- C15 ----------------------------------------------------------------
\* C15: a 404 response to a request that allows it ends make_request with an
\* empty, successful result: the caller takes it as its result, nothing is
\* raised or retried and the gate is not touched. A 404 response to a request
\* that does not allow it is a failure of the attempt: a retry, or no record
\* on the last attempt; the gate is not touched either.
C15_Optional404 ==
    [][/\ Interpret("404", TRUE) = "empty"
       /\ Interpret("404", FALSE) = "raise"
       /\ \A t \in Threads :
            (tpc[t] = "delay" /\ tstatus[t] = "404" /\ tpc'[t] # "delay") =>
                /\ pause_event' = pause_event
                /\ lock' = lock
                /\ IF tallow404[t]
                     THEN /\ tpc'[t] = "done"
                          /\ tresult'[t] = "record_empty"
                     ELSE /\ tresult'[t] \notin {"record", "record_empty"}
                          /\ \/ /\ tpc'[t] = "call"
                                /\ tattempt'[t] = tattempt[t] + 1
                             \/ /\ tpc'[t] = "done" /\ tresult'[t] = "none"
                                /\ tattempt[t] = max_retries - 1]_vars

\* One worker's allowed 404 ended its routine with the empty result on its
\* first attempt; another worker's 404, not allowed, ended its last attempt
\* without a record.
C15_Witness ==
    \E t, u \in Threads :
        /\ tallow404[t] /\ tpc[t] = "done" /\ tstatus[t] = "404"
        /\ tresult[t] = "record_empty"
        /\ ~tallow404[u] /\ tpc[u] = "done" /\ tstatus[u] = "404"
        /\ tresult[u] = "none"

\* ---- C16 ----------------------------------------------------------------
\* The IDs whose submissions returned a record.
RecordIds == {project_ids[i] : i \in {j \in Tasks : result[j] = "record"}}

\* C16: sequential and concurrent collection agree. With the worker pool or
\* without it, a submission returns a record exactly when it did not fail
\* max_retries times, and the finished batch has committed exactly one record
\* for each ID with such a submission, with the dedup set holding exactly
\* those IDs: committed records, excluded IDs and dedup state are the same
\* function of the ID list and the per-submission outcomes in both modes.
\* Without the pool the output follows the order of the list.
C16_SequentialEquivalent ==
    /\ \A i \in Tasks :
          pc[i] = "finished" =>
             (result[i] = "record" <=> fails[i] < max_retries)
    /\ BatchDone =>
          /\ OutputIds = RecordIds
          /\ processed_project_ids = RecordIds
          /\ Len(output_data) = Cardinality(RecordIds)
    /\ ~use_threading =>
          \A a, b \in 1..Len(output_data) :
              a < b => output_data[a].src < output_data[b].src

\* A finished sequential batch in which an ID's first submission failed on
\* all attempts, its second submission was committed, and another ID was
\* excluded.
C16_Witness ==
    /\ ~use_threading
    /\ BatchDone
    /\ \E i, j \in Tasks :
          /\ i < j /\ project_ids[i] = project_ids[j]
          /\ result[i] = "none" /\ result[j] = "record"
          /\ \E k \in 1..Len(output_data) : output_data[k].src = j
    /\ \E i \in Tasks : project_ids[i] \notin OutputIds

\* ---- C17 ----------------------------------------------------------------
\* C17: first committed wins. When the batch loop processes a completed
\* submission that returned a record, it inserts the ID and appends the
\* record if the ID is not in the dedup set, and changes nothing if it is;
\* no step ever replaces, modifies or removes a record of the output.
C17_FirstCommittedWins ==
    [][/\ Len(output_data') >= Len(output_data)
       /\ \A k \in 1..Len(output_data) : output_data'[k] = output_data[k]
       /\ processed_project_ids \subseteq processed_project_ids'
       /\ \A i \in Tasks :
            (~handled[i] /\ handled'[i]) =>
                IF result[i] = "record"
                     /\ project_ids[i] \notin processed_project_ids
                  THEN /\ output_data' =
                             Append(output_data, [id |-> project_ids[i], src |-> i])
                       /\ processed_project_ids' =
                             processed_project_ids \cup {project_ids[i]}
                  ELSE /\ output_data' = output_data
                       /\ processed_project_ids' = processed_project_ids]_vars

\* An ID was submitted twice and both submissions returned a record; the one
\* submitted later completed first and was committed, and the record of the
\* one submitted earlier was dropped.
C17_Witness ==
    \E i, j \in Tasks :
        /\ i < j /\ project_ids[i] = project_ids[j]
        /\ result[i] = "record" /\ result[j] = "record"
        /\ handled[i] /\ handled[j]
        /\ \E k \in 1..Len(output_data) : output_data[k].src = j
        /\ \A k \in 1..Len(output_data) : output_data[k].src # i

\* ---- C18 ----------------------------------------------------------------
\* C18: the dedup set is scoped per category. When the batch of a later
\* category is done, every ID of it with a submission that returned a record
\* has a record in that category's output list, whether or not an earlier
\* category of the run committed the same ID.
C18_DedupPerCategory ==
    (Len(collected) >= 1 /\ BatchDone /\ ~aborted) =>
        \A i \in Tasks :
            result[i] = "record" => project_ids[i] \in OutputIds

\* ---- C19 ----------------------------------------------------------------
\* C19: categories are collected strictly one after another. The step that
\* goes on to the next category (its ID listing) is taken only when every
\* outer worker of the current batch has returned, every nested enrichment
\* worker is done and every completed submission has been processed; it
\* files the category's output list as it is, starts no worker itself, and
\* the lists of the categories already collected never change afterwards.
C19_CategoriesSequential ==
    [][/\ \A k \in 1..Len(collected) :
             Len(collected') >= k /\ collected'[k] = collected[k]
       /\ Len(collected') # Len(collected) =>
             /\ \A i \in Tasks :
                   /\ pc[i] = "finished"
                   /\ handled[i]
                   /\ result[i] = "record" =>
                         project_ids[i] \in processed_project_ids
                   /\ \A c \in DOMAIN units[i] : units[i][c].upc = "done"
             /\ collected' = Append(collected, output_data)
             /\ \A i \in DOMAIN pc' : pc'[i] = "queued"]_vars

\* The second category is being collected with the pool (a worker is in its
\* nested enrichment) after the first category was filed with a committed
\* record.
C19_Witness ==
    /\ use_threading
    /\ Len(collected) = 1
    /\ Len(collected[1]) >= 1
    /\ \E i \in Tasks : \E c \in DOMAIN units[i] :
          pc[i] = "nested" /\ units[i][c].upc = "ready"

\* ---- C20 ----------------------------------------------------------------
\* The positions in which a worker waits for another thread or for the end of
\* its pause sleep.
Waiting == {"blocked", "trigger", "sleeping"}

\* C20: a pause ends and nothing deadlocks. The step that ends the pause
\* sleep is the return of trigger_global_pause: it leaves the gate OPEN, the
\* lock free and no thread blocked in the wait; as long as a worker has not
\* finished some step can be taken; and every worker that waits in
\* wait_if_paused or in trigger_global_pause eventually goes on, so that
\* every worker finishes.
C20_PauseEndsNoDeadlock ==
    /\ []((\A t \in Threads : tpc[t] = "done") \/ ENABLED NextGate)
    /\ [][\A t \in Threads :
            (tpc[t] = "sleeping" /\ tpc'[t] # "sleeping") =>
                /\ tpc'[t] = "throttled"
                /\ pause_event'
                /\ lock' = 0
                /\ waiters' = {}]_vars
    /\ \A t \in Threads : (tpc[t] \in Waiting) ~> (tpc[t] \notin Waiting)
    /\ <>(\A t \in Threads : tpc[t] = "done")

\* A trigger_global_pause call has returned with the gate OPEN and the lock
\* free, and the worker it had blocked in wait_if_paused has been released.
C20_Witness ==
    \E t, u \in Threads :
        /\ tpc[t] = "throttled"
        /\ pause_event /\ lock = 0 /\ waiters = {}
        /\ tpc[u] = "blocked"

\* C21: an exception raised outside the per-ID boundary (the listing of a
\* category, or a step after the last batch) ends the run: once it is raised
\* nothing has been exported, no batch is left to run, and no step of the run
\* (no later category, no export) can be taken any more.
C21_FatalAborts ==
    aborted => /\ exported = <<>>
               /\ Tasks = {}
               /\ ~ENABLED NextRun

\* A listing raised after the first category was collected.
C21_Witness ==
    /\ aborted
    /\ Len(collected) = 1
    /\ collected[1] # <<>>
    /\ exported = <<>>

\* C22: for each project-level enrichment, a disabled flag means that no
\* fetch of it is ever issued and that the committed record carries its
\* placeholder; an enabled flag means that the committed record carries the
\* value its fetch returned in the attempt that built the record.
C22_ProjectFlags ==
    \A i \in Tasks :
        /\ fetched[i] \subseteq flags \cap ProjectFlags
        /\ pc[i] = "ready" => StepEnabled(step[i])
        /\ result[i] = "record" => fetched[i] = flags \cap ProjectFlags
        /\ \A k \in 1..Len(output_data) :
              output_data[k].src = i => result[i] = "record"

\* A record is committed under a configuration with one flag enabled and
\* another disabled.
C22_Witness ==
    /\ "price_trends" \in flags
    /\ "demographics" \notin flags
    /\ \E i \in Tasks : /\ result[i] = "record"
                         /\ handled[i]
                         /\ fails[i] > 0
                         /\ Len(output_data) = 1

\* The threads inside the pause sleep of trigger_global_pause.
Sleepers == {t \in Threads : tpc[t] = "sleeping"}

\* C23: at most one thread is inside the pause sleep at any time; the gate is
\* PAUSED exactly while some thread sleeps, and from the step that clears the
\* event to the step that sets it again the sleeping thread stays the same:
\* no other thread starts to sleep, and no other thread changes the gate.
C23_OneSleeper ==
    /\ [](Cardinality(Sleepers) <= 1)
    /\ [](~pause_event <=> Sleepers # {})
    /\ [][\A t \in Threads :
            /\ (tpc[t] # "sleeping" /\ tpc'[t] = "sleeping")
                  => pause_event /\ ~pause_event' /\ Sleepers = {}
            /\ (tpc[t] = "sleeping" /\ tpc'[t] = "sleeping")
                  => ~pause_event' /\ Sleepers' = {t}
            /\ (tpc[t] = "sleeping" /\ tpc'[t] # "sleeping")
                  => pause_event' /\ Sleepers' = {}]_vars

\* One thread sleeps while another, throttled too, has called
\* trigger_global_pause.
C23_Witness ==
    \E t, u \in Threads :
        /\ tpc[t] = "sleeping"
        /\ tpc[u] = "trigger"
        /\ ~pause_event

\* C24: the rate limiter's lock is not held while the pausing thread sleeps,
\* so a thread that calls trigger_global_pause during the pause takes the lock
\* at once.
C24_LockFreeDuringSleep ==
    \A t, u \in Threads :
        tpc[t] = "sleeping" =>
            /\ lock = 0
            /\ tpc[u] = "trigger" => ENABLED Acquire(u)

\* A step that changes processed_project_ids or output_data.
Mutation ==
    processed_project_ids' # processed_project_ids \/ output_data' # output_data

C26_LockOnlyForCommit ==
    /\ [](dlock # 0 => /\ dlock = BatchThread
                       /\ use_threading
                       /\ committing # <<>>
                       /\ committing[2] \in {"locked", "checked", "appended",
                                              "added"}
                       /\ pc[committing[1]] = "finished")
    /\ [][dlock # 0 /\ dlock' # 0 =>
            \/ committing' # committing /\ committing'[1] = committing[1]
                  /\ pc' = pc /\ calls' = calls
            \/ committing' = committing /\ use_threading]_vars

\* The lock is held while a worker thread is inside its routine.
C26_Witness ==
    /\ dlock = BatchThread
    /\ committing # <<>>
    /\ committing[2] = "checked"
    /\ \E j \in Tasks : pc[j] = "ready" /\ calls[j] > 0

\* C27: no pool-exhaustion deadlock: as long as the batch is not done some
\* step of a worker or of the batch loop can be taken, and a batch over a
\* finite ID list with finite child lists is eventually done.
C27_NoPoolDeadlock ==
    /\ [](BatchDone \/ ENABLED NextPoolLive)
    /\ <>BatchDone

\* Every slot of the outer pool is taken by a worker that waits for its nested
\* pool, and every nested pool is full.
C27_Witness ==
    /\ use_threading
    /\ Cardinality({i \in Tasks : pc[i] = "nested"}) = PoolSlots
    /\ \A i \in Tasks : pc[i] = "nested" =>
          Cardinality(UnitsRunning(i)) = PoolSlots

\* C28: when the pacing delay ends on a response whose status is neither 200,
\* 403, 429 nor an allowed 404, make_request raises (its caller retries or,
\* on its last attempt, gives up) and the event, the lock and the blocked
\* threads are as before; a thread enters trigger_global_pause only on a 403
\* or 429 response, and only a thread inside trigger_global_pause changes the
\* event or the lock.
C28_OtherStatusLeavesGate ==
    /\ [][\A t \in Threads :
            (/\ tpc[t] = "delay"
             /\ tpc'[t] # "delay"
             /\ \/ tstatus[t] = "500"
                \/ tstatus[t] = "404" /\ ~tallow404[t])
            => /\ pause_event' = pause_event
               /\ lock' = lock
               /\ waiters' = waiters
               /\ IF tattempt[t] < max_retries - 1
                    THEN tpc'[t] = "call" /\ tattempt'[t] = tattempt[t] + 1
                    ELSE tpc'[t] = "done" /\ tresult'[t] = "none"]_vars
    /\ [][\A t \in Threads :
            (tpc[t] # "trigger" /\ tpc'[t] = "trigger")
            => tpc[t] = "delay" /\ tstatus[t] \in {"403", "429"}]_vars
    /\ [][(pause_event' # pause_event \/ lock' # lock)
            => \E t \in Threads :
                  /\ tpc[t] \in {"trigger", "sleeping"}
                  /\ tpc'[t] # tpc[t]
                  /\ \A u \in Threads \ {t} : tpc'[u] = tpc[u]]_vars

\* A worker has given up on status 500 responses while the gate was never
\* touched and the other worker has not started.
C28_Witness ==
    \E t, u \in Threads :
        /\ tpc[t] = "done"
        /\ tstatus[t] = "500"
        /\ tresult[t] = "none"
        /\ tpc[u] = "call"
        /\ tattempt[u] = 0
        /\ pause_event
        /\ lock = 0

\* C29: make_request is single-shot: a network call starts only after the
\* wait_if_paused at the head of make_request, and when it has ended
\* make_request goes on to its pacing delay or ends, never to another network
\* call; a new make_request for the same ID begins only as the next attempt of
\* the caller's retry loop, which has max_retries attempts.
C29_SingleShot ==
    /\ [][\A t \in Threads :
            /\ (tpc[t] # "inflight" /\ tpc'[t] = "inflight") => tpc[t] = "send"
            /\ (tpc[t] # "send" /\ tpc'[t] = "send")
                  => tpc[t] \in {"call", "blocked"}
            /\ (tpc[t] = "inflight" /\ tpc'[t] # "inflight")
                  => tpc'[t] \in {"delay", "call", "done"}
            /\ (tpc[t] \in {"delay", "trigger", "sleeping", "throttled"}
                 /\ tpc'[t] # tpc[t])
                  => tpc'[t] \in {"trigger", "sleeping", "throttled", "call",
                                  "done"}
            /\ (tpc[t] # "call" /\ tpc'[t] = "call")
                  => /\ tattempt'[t] = tattempt[t] + 1
                     /\ tattempt'[t] <= max_retries - 1
            /\ tpc'[t] # "call" => tattempt'[t] \in {tattempt[t], 0}]_vars
    /\ [](\A t \in Threads : tattempt[t] <= max_retries - 1)

\* The network call of the last attempt is in flight.
C29_Witness ==
    \E t \in Threads :
        /\ tpc[t] = "inflight"
        /\ tattempt[t] = max_retries - 1
        /\ max_retries > 1

\* C30: a worker that gets a throttling response on an attempt before its
\* last goes through the pause sleep itself, leaves it with the gate OPEN
\* again, and then begins its next attempt for the same ID, whose network
\* call eventually starts, after wait_if_paused has let it pass; an attempt
\* that ends with a 200 response holding data returns the record.
C30_ThrottlingRecoverable ==
    /\ [][\A t \in Threads :
            /\ (tpc[t] = "trigger" /\ tpc'[t] # "trigger")
                  => tpc'[t] = "sleeping" /\ ~pause_event'
            /\ (tpc[t] = "sleeping" /\ tpc'[t] # "sleeping")
                  => tpc'[t] = "throttled" /\ pause_event' /\ lock' = 0
            /\ (tpc[t] = "throttled" /\ tpc'[t] # "throttled"
                 /\ tattempt[t] < max_retries - 1)
                  => tpc'[t] = "call" /\ tattempt'[t] = tattempt[t] + 1
            /\ (tpc[t] = "call" /\ tpc'[t] = "send") => pause_event
            /\ (tpc[t] = "call" /\ tpc'[t] # "call")
                  => tpc'[t] \in {"send", "blocked"}
            /\ (tpc[t] = "delay" /\ tstatus[t] = "200_data"
                 /\ tpc'[t] # "delay")
                  => tpc'[t] = "done" /\ tresult'[t] = "record"]_vars
    /\ \A t \in Threads :
          (tpc[t] = "trigger" /\ tattempt[t] < max_retries - 1)
             ~> (tpc[t] = "inflight" /\ tattempt[t] > 0)

\* A worker that was throttled on its first attempt while the gate was OPEN
\* has slept through its pause, left the gate OPEN and the lock free, and is
\* about to raise into its caller's retry.
C30_Witness ==
    \E t \in Threads :
        /\ entryOpen[t]
        /\ tpc[t] = "throttled"
        /\ tattempt[t] = 0
        /\ max_retries > 1
        /\ tresult[t] = "pending"
        /\ pause_event
        /\ lock = 0

\* C31: at any time at most max_workers per-ID routines of a batch are being
\* executed (one when threading is off), and for each project at most
\* max_workers enrich_unit calls are being executed (one when threading is
\* off).
C31_PoolBoundPerLevel ==
    LET cap == IF use_threading THEN max_workers ELSE 1
    IN  /\ Cardinality(Running) <= cap
        /\ \A i \in Tasks : Cardinality(UnitsRunning(i)) <= cap

\* The outer pool is full while another ID is queued behind it, and one of
\* its workers waits for its nested pool, which runs a child.
C31_Witness ==
    /\ use_threading
    /\ Cardinality(Running) = max_workers
    /\ \E i \in Tasks : pc[i] = "queued"
    /\ \E i \in Tasks : pc[i] = "nested" /\ UnitsRunning(i) # {}

\* C32: trigger_global_pause leaves the gate OPEN whenever it ends, by a
\* return or by an exception of the pause sleep; so every PAUSED state is
\* eventually followed by OPEN and no worker stays blocked in wait_if_paused
\* forever.
C32_PausedLeadsToOpen ==
    /\ [][\A t \in Threads :
            (tpc[t] = "sleeping" /\ tpc'[t] # "sleeping") => pause_event']_vars
    /\ (~pause_event) ~> pause_event
    /\ \A t \in Threads : (tpc[t] = "blocked") ~> (tpc[t] # "blocked")

\* The records appended so far to the project lists of output_data: those of
\* the categories collected before, then those of the current one.
RECURSIVE Concat(_)
Concat(lists) ==
    IF lists = <<>> THEN <<>> ELSE Head(lists) \o Concat(Tail(lists))
ProjectRecords == Concat(collected) \o output_data

\* C33: after any sequence of project batches, processed_project_ids holds
\* exactly the IDs of the records appended to the project lists, and the
\* number of appended records equals the size of the set.
C33_SetMatchesRecords ==
    /\ processed_project_ids =
          {ProjectRecords[k].id : k \in 1..Len(ProjectRecords)}
    /\ Len(ProjectRecords) = Cardinality(processed_project_ids)

\* The second category listed the ID that the first had committed; its
\* routine returned a record and the batch has handled it.
C33_Witness ==
    /\ Len(collected) = 1
    /\ Len(collected[1]) = 1
    /\ \E i \in Tasks : /\ handled[i]
                         /\ result[i] = "record"
                         /\ project_ids[i] = collected[1][1].id
    /\ processed_project_ids # {}

\* C34: no partial project record is committed. A routine returns a record
\* only from the last step of an attempt that began with the base fetch and
\* fetched every enabled enrichment; a failure at any step discards what the
\* attempt fetched and either begins the next attempt at the base fetch,
\* using up one of the max_retries attempts, or, on the last attempt, ends
\* the routine without a record, at whatever step the failure happened; only
\* returned records are committed.
C34_NoPartialRecord ==
    /\ [](\A i \in Tasks :
            /\ pc[i] = "ready" =>
                  /\ fails[i] = attempt[i]
                  /\ calls[i] = attempt[i] + (IF step[i] > 1 THEN 1 ELSE 0)
                  /\ attempt[i] <= max_retries - 1
            /\ (pc[i] = "finished" /\ result[i] = "none")
                  => fails[i] = max_retries /\ calls[i] = max_retries
            /\ \A k \in 1..Len(output_data) :
                  output_data[k].src = i
                     => result[i] = "record" /\ fetched[i] = flags \cap ProjectFlags)
    /\ [][\A i \in Tasks :
            /\ fails'[i] # fails[i] =>
                  /\ fails'[i] = fails[i] + 1
                  /\ fetched'[i] = {}
                  /\ IF attempt[i] < max_retries - 1
                       THEN /\ pc'[i] = "ready"
                            /\ step'[i] = 1
                            /\ attempt'[i] = attempt[i] + 1
                       ELSE /\ pc'[i] = "finished"
                            /\ result'[i] = "none"
            /\ (result[i] # "record" /\ result'[i] = "record") =>
                  /\ ProjectSteps[step[i]] = "unit_models"
                  /\ fetched[i] = flags \cap ProjectFlags
                  /\ calls[i] = attempt[i] + 1
                  /\ fails'[i] = fails[i]]_vars

\* The last attempt has got past its base fetch and an enrichment after an
\* earlier attempt failed and was restarted; nothing is committed.
C34_Witness ==
    \E i \in Tasks :
        /\ pc[i] = "ready"
        /\ attempt[i] = max_retries - 1
        /\ fails[i] = max_retries - 1
        /\ calls[i] = max_retries
        /\ max_retries > 1
        /\ fetched[i] # {}
        /\ output_data = <<>>

\* C35: with the shipped configuration main completes the set-up of its
\* components and calls collect_all_data: the run does not end with an
\* exception raised during set-up.
C35_SetupReachesCollection ==
    (flags = ShippedFlags /\ use_threading) => mainpc # "failed"

\* C36: the nested fan-out returns one enriched record per listed child:
\* the children list of an attempt has one entry for each child that
\* get_available_units listed, whatever the outcome of its enrichment, and
\* once the nested pool is left every entry is a record with the three
\* secondary fields (fetched or placeholder), never the one-key fallback.
C36_OneRecordPerChild ==
    \A i \in Tasks :
        units[i] # <<>> =>
            /\ DOMAIN units[i] = 1..api_units
            /\ pc[i] # "nested" =>
                  \A c \in DOMAIN units[i] :
                      /\ units[i][c].upc = "done"
                      /\ units[i][c].ures \in {"placeholder", "enriched"}

\* The nested pool has returned the list of all EnrichUnits children, one of
\* which failed every attempt and one of which was enriched, and the routine
\* is at its next call.
C36_Witness ==
    \E i \in Tasks :
        /\ pc[i] = "ready"
        /\ ProjectSteps[step[i]] = "unit_models"
        /\ Len(units[i]) = EnrichUnits
        /\ \E c, d \in DOMAIN units[i] :
              /\ units[i][c].ucalled /\ units[i][c].ures = "placeholder"
              /\ units[i][d].ures = "enriched"

C38_BatchFrame ==
    [][/\ \A k \in DOMAIN collected :
             k \in DOMAIN collected' /\ collected'[k] = collected[k]
       /\ IF Len(collected') = Len(collected)
            THEN /\ Len(output_data') \in {Len(output_data), Len(output_data) + 1}
                 /\ \A k \in DOMAIN output_data : output_data'[k] = output_data[k]
                 /\ IF output_data' = output_data
                      THEN processed_project_ids' = processed_project_ids
                      ELSE processed_project_ids' =
                             processed_project_ids
                               \cup {output_data'[Len(output_data')].id}
            ELSE /\ collected' = Append(collected, output_data)
                 /\ output_data' = <<>>
                 /\ processed_project_ids' = processed_project_ids]_vars

\* The batch of the second category has appended a record of its own while
\* the list of the first category holds a record of another ID.
C38_Witness ==
    /\ Len(collected) = 1
    /\ Len(collected[1]) >= 1
    /\ Len(output_data) = 1
    /\ collected[1][1].id # output_data[1].id
    /\ Cardinality(processed_project_ids) = Len(collected[1]) + 1

====
